---- MODULE Spec2Model ----
(***************************************************************************)
(* A model of naucse/models.py: the lazy lesson loader of a Course         *)
(* (_LessonsDict, load_lessons, load_all_lessons, freeze, get_lesson_url), *)
(* the derived indices of Root (add_course, RunYear), the start_date and   *)
(* end_date of a loaded Course, and URL resolution (Model.get_url,         *)
(* Model._url, Root._url_for).                                             *)
(*                                                                         *)
(* Lesson slugs are the naturals 1, 2, ...; what the external renderer     *)
(* returns for a slug (which further lessons its content links to, which   *)
(* slug it leaves out) is fixed by the variable "renderer".                *)
(***************************************************************************)
EXTENDS Integers, FiniteSets, Sequences, TLC

\* ------------------------------------------------------------------ bounds

\* Slugs 1..MaxSlug are the ones callers name in load_lessons(slugs),
\* lessons[slug] and get_lesson_url(slug), and the ones materials refer to.
MaxSlug == 2

\* Calendar years are 1..MaxYear, the days of a year 1..MaxDay.
MaxYear == 2
MaxDay == 2

\* A course document has at most MaxSessions sessions.
MaxSessions == 2

\* At most MaxObjects Course objects are built.
MaxObjects == 3

\* link_depth = 50 in Course.load_all_lessons
LinkDepth == 50

\* The slug of the one course of the loader specification.
CourseSlug == "courses/c"

VARIABLES
    renderer,            \* the external renderer's content (fixed)
    materials,           \* the materials of the course's sessions (fixed)
    _lessons,            \* Course._lessons: the slugs materialized
    _requested_lessons,  \* Course._requested_lessons
    _frozen,             \* Course._frozen
    link_depth,          \* local of load_all_lessons
    call,                \* the operation whose load_all_lessons loop is running
    pre,                 \* the course's state when the current/last operation was called
    fetched,             \* slugs the current/last operation asked the renderer for
    calls,               \* renderer.get_lessons calls of the current/last operation
    last                 \* the last operation that ended: what it was and how it ended

loaderVars == <<renderer, materials, _lessons, _requested_lessons, _frozen,
                link_depth, call, pre, fetched, calls, last>>

VARIABLES
    url_factories,       \* Root.url_factories: url_type -> the node types with a resolver
    urlLast              \* the last URL read: the node, and how get_url and _url ended

urlVars == <<urlLast>>

VARIABLES
    courses,             \* Root.courses: slug -> Course
    run_years,           \* Root.run_years: year -> RunYear.runs (slug -> Course)
    self_study_courses,  \* Root.self_study_courses: slug -> Course
    nextId,              \* the identity of the next Course object built
    rootLast             \* how the last add_course ended

rootVars == <<courses, run_years, self_study_courses, nextId, rootLast>>

VARIABLES
    doc,                 \* a course document, as the renderer's get_course returns it
    course               \* the Course loaded from doc

courseLoadVars == <<doc, course>>

VARIABLES
    pksLast,             \* the last two calls of get_pks: the node and the mapping
    timeIn,              \* what a session's time is resolved from
    timeOut              \* the course's timezone and the session's time, resolved

VARIABLES
    matIn,               \* the document of a Material about to be loaded
    matOut,              \* the outcome of its load
    chainIn,             \* the sessions of a course document, each its materials
    chainOut,            \* the sessions after the load, with prev and next
    loading              \* a course while its fields are loaded one by one

graphVars ==
    <<pksLast, timeIn, timeOut, matIn, matOut, chainIn, chainOut, loading>>

vars == <<loaderVars, url_factories, urlVars, rootVars, courseLoadVars, graphVars>>

\* ------------------------------------------------------------ the renderer

\* The lessons the content of lesson s links to (through the sanitizer's
\* page_url callback, which calls Course.get_lesson_url).
Refs(w, s) ==
    CASE w.kind = "chain" -> IF s < w.len THEN {s + 1} ELSE {}
      [] w.kind = "cycle" -> IF s <= w.len THEN {(s % w.len) + 1} ELSE {}
      [] w.kind = "tree"  -> {t \in {2 * s, 2 * s + 1} : t <= w.len}
      [] OTHER -> {}

\* renderer.get_lessons(slugs, ...): the lessons returned. A slug that does
\* not exist, or that the renderer leaves out, is not in the output.
Rendered(w, asked) == {s \in asked : s >= 1 /\ s <= w.len /\ s # w.missing}

\* Small contents: short chains, cycles (a lesson that links to itself
\* included) and a tree, with or without a slug the renderer leaves out.
Renderers ==
    [kind : {"chain"}, len : {1, 2}, missing : 0..MaxSlug]
    \cup [kind : {"cycle"}, len : 1..3, missing : 0..MaxSlug]
    \cup [kind : {"tree"}, len : {5}, missing : 0..MaxSlug]

\* Deep contents: chains of LinkDepth lessons and more, each lesson linking
\* to the next, and cycles.
DeepRenderers ==
    [kind : {"chain"}, len : {LinkDepth, LinkDepth + 1, LinkDepth + 2},
     missing : {0}]
    \cup [kind : {"cycle"}, len : {3}, missing : {0}]

\* ------------------------------------------------------------- materials

NoSlug == 0

\* The lesson_slug "": a string, but a false one.
EmptySlug == -1

LessonMaterial(s) == [lesson_slug |-> s, external_url |-> ""]
LinkMaterial == [lesson_slug |-> NoSlug, external_url |-> "https://x"]
BareMaterial == [lesson_slug |-> NoSlug, external_url |-> ""]
EmptySlugMaterial == [lesson_slug |-> EmptySlug, external_url |-> ""]

\* "if material.lesson_slug": neither None nor "".
RefersToLesson(m) == m.lesson_slug \notin {NoSlug, EmptySlug}

\* Course._sessions_after_load: every material's lesson_slug is requested.
SessionsAfterLoad(ms) == {m.lesson_slug : m \in {x \in ms : RefersToLesson(x)}}


\* ----------------------------------------------------------- primary keys

\* Python dicts as functions: {**f, k: v} and del f[k].
Put(f, k, v) == [x \in DOMAIN f \cup {k} |-> IF x = k THEN v ELSE f[x]]
Del(f, k) == [x \in DOMAIN f \ {k} |-> f[x]]

\* A node is named by its position in the graph: the path from Root to it,
\* a sequence of <<type, own key>> pairs. Root is the empty path.
TypeOf(path) == IF path = <<>> THEN "Root" ELSE path[Len(path)][1]
KeyOf(path) == path[Len(path)][2]
Parent(path) == SubSeq(path, 1, Len(path) - 1)

\* Root.get_pks: {}
NoPks == [x \in {} |-> ""]

\* The mutant of PkName: the name of the key attribute alone, without the
\* model's slug in front of it.
PkNameUnprefixed(type) ==
    CASE type = "Solution" -> "index"
      [] type = "StaticFile" -> "filename"
      [] type = "RunYear" -> "year"
      [] OTHER -> "slug"

\* The name of the entry a node adds: f'{model_slug}_{pk_name}' in
\* Model.get_pks, and the names StaticFile, SessionPage and RunYear give in
\* their own get_pks.
PkName(type) ==
    CASE type = "Course" -> "course_slug"
      [] type = "Session" -> "session_slug"
      [] type = "Material" -> "material_slug"
      [] type = "SessionPage" -> "page_slug"
      [] type = "Lesson" -> "lesson_slug"
      [] type = "Page" -> "page_slug"
      [] type = "Solution" -> "solution_index"
      [] type = "StaticFile" -> "filename"
      [] type = "RunYear" -> "year"
      [] type = "License" -> "license_slug"

\* node.get_pks(): {**self.parent.get_pks(), name: own key}
RECURSIVE get_pks(_)
get_pks(path) ==
    IF path = <<>> THEN NoPks
    ELSE Put(get_pks(Parent(path)), PkName(TypeOf(path)), KeyOf(path))

\* The course of the loader specification, and its lesson of a slug.
CoursePath == <<(<<"Course", CourseSlug>>)>>
LessonPath(slug) == Append(CoursePath, <<"Lesson", ToString(slug)>>)

\* The types of the nodes a node of a type is the parent of.
Children(type) ==
    CASE type = "Root" -> {"Course", "License", "RunYear"}
      [] type = "Course" -> {"Session", "Lesson"}
      [] type = "Session" -> {"Material", "SessionPage"}
      [] type = "Lesson" -> {"Page", "StaticFile"}
      [] type = "Page" -> {"Solution"}
      [] OTHER -> {}

PkKeys == {"a", "b"}

\* The positions of a graph: the paths of at most n nodes below Root.
RECURSIVE Paths(_)
Paths(n) ==
    IF n = 0 THEN {<<>>}
    ELSE Paths(n - 1) \cup
         UNION {{Append(path, <<t, k>>) : t \in Children(TypeOf(path)), k \in PkKeys} :
                   path \in {q \in Paths(n - 1) : Len(q) = n - 1}}

\* Root, Course, Lesson, Page, Solution: the longest path has four nodes
\* below Root.
Positions == Paths(4)

PksCall(n, path, pks, prev_path, prev_pks) ==
    [n |-> n, path |-> path, pks |-> pks, prev_path |-> prev_path,
     prev_pks |-> prev_pks]

NoPksCall == PksCall(0, <<>>, NoPks, <<>>, NoPks)

\* node.get_pks(), the node being the one at path
Node_get_pks(path) ==
    /\ pksLast' = PksCall(IF pksLast.n = 0 THEN 1 ELSE 2, path, get_pks(path),
                          pksLast.path, pksLast.pks)
    /\ UNCHANGED <<timeIn, timeOut, matIn, matOut, chainIn, chainOut, loading,
                   loaderVars, url_factories, urlVars, rootVars,
                   courseLoadVars>>

\* ------------------------------------------------------------------- URLs

\* An outcome of a call: exc is the class of the exception raised ("" when
\* the call returns), val what it returns, pks the primary keys a resolver
\* was called with.
Raise(cls) == [exc |-> cls, val |-> <<>>, pks |-> NoPks]
Return(v) == [exc |-> "", val |-> v, pks |-> NoPks]
Resolved(obj_type, pks, url_type, external) ==
    [exc |-> "", val |-> <<"url", obj_type, url_type, external>>, pks |-> pks]

\* class NoURL(LookupError); class NoURLType(NoURL)
Subclasses(cls) ==
    CASE cls = "NoURL" -> {"NoURL", "NoURLType"}
      [] cls = "NoURLType" -> {"NoURLType"}
      [] OTHER -> {cls}

IsInstance(exc, cls) == exc \in Subclasses(cls)

UrlKinds == {"web", "api"}
NodeTypes == {"Course", "Session", "Lesson", "Page"}

\* Every node type has a resolver for the kind "web".
AllWebUrls == [k \in {"web"} |-> NodeTypes]

\* The mutant of Root_url_for: a type without a resolver for the kind fails
\* like a kind that is not registered at all.
Root_url_forKindOnly(uf, obj_type, pks, url_type, external) ==
    IF url_type \notin DOMAIN uf \/ obj_type \notin uf[url_type]
    THEN Raise("NoURLType")
    ELSE Resolved(obj_type, pks, url_type, external)

\* Root._url_for(obj_type, pks, url_type, external). The resolver url_for is
\* the caller's; the URL it builds is modelled by what it was looked up and
\* called with: the type, the primary keys, the kind and the external flag.
Root_url_for(uf, obj_type, pks, url_type, external) ==
    IF url_type \notin DOMAIN uf THEN Raise("NoURLType")
    ELSE IF obj_type \notin uf[url_type] THEN Raise("NoURL")
    ELSE Resolved(obj_type, pks, url_type, external)

\* Model.get_url(url_type, external): the resolver of the node's own type
\* is looked up and called with the node's primary keys.
Model_get_url(uf, path, url_type, external) ==
    Root_url_for(uf, TypeOf(path), get_pks(path), url_type, external)

\* pks={'page_slug': page, 'lesson_slug': slug, **self.get_pks()} in
\* Course.get_lesson_url, page being 'index'.
LessonPagePks(slug) ==
    [x \in {"page_slug", "lesson_slug"} \cup DOMAIN get_pks(CoursePath) |->
        IF x \in DOMAIN get_pks(CoursePath) THEN get_pks(CoursePath)[x]
        ELSE IF x = "lesson_slug" THEN ToString(slug) ELSE "index"]

\* ------------------------------------------------------- the lesson loader

\* Course.get_lesson_url(slug): what it returns or raises.
GetLessonUrlOutcome(uf, lessons, frozen, slug) ==
    IF slug \in lessons
    THEN Model_get_url(uf, LessonPath(slug), "web", "external=False")
    ELSE IF frozen THEN Return(<<"KeyError">>)
    ELSE Root_url_for(uf, "Page", LessonPagePks(slug), "web", "external=False")

\* The mutant of MaterialUrlOutcome: the external URL is returned for every
\* kind.
MaterialUrlOutcomeAnyKind(uf, lessons, frozen, m, url_type) ==
    IF RefersToLesson(m)
    THEN GetLessonUrlOutcome(uf, lessons, frozen, m.lesson_slug)
    ELSE IF m.external_url # "" THEN Return(<<m.external_url>>)
    ELSE IF url_type # "web" THEN Raise("NoURLType")
    ELSE Raise("NoURL")

\* Material.get_url(url_type): what it returns or raises. The material has no
\* URL of its own: it refers to a lesson, to an external page, or to nothing.
MaterialUrlOutcome(uf, lessons, frozen, m, url_type) ==
    IF RefersToLesson(m)
    THEN GetLessonUrlOutcome(uf, lessons, frozen, m.lesson_slug)
    ELSE IF url_type # "web" THEN Raise("NoURLType")
    ELSE IF m.external_url # "" THEN Return(<<m.external_url>>)
    ELSE Raise("NoURL")

\* How an outcome is recorded: the exception's class, or the head of the
\* value returned.
OutcomeName(o) == IF o.exc # "" THEN o.exc ELSE o.val[1]

\* The mutant of GetLessonUrlRequested: a frozen course records requests too.
GetLessonUrlRequestedFrozenToo(lessons, frozen, requested, slug) ==
    IF slug \in lessons THEN requested ELSE requested \cup {slug}

\* Course.get_lesson_url(slug): _requested_lessons afterwards.
GetLessonUrlRequested(lessons, frozen, requested, slug) ==
    IF slug \in lessons \/ frozen THEN requested ELSE requested \cup {slug}

\* Material.get_url(url_type): _requested_lessons afterwards.
MaterialUrlRequested(lessons, frozen, requested, m) ==
    IF RefersToLesson(m)
    THEN GetLessonUrlRequested(lessons, frozen, requested, m.lesson_slug)
    ELSE requested

\* The slugs the page_url callback asks get_lesson_url for while the rendered
\* lessons are loaded (their content is sanitized before any is stored).
ContentLinks(w, rendered) == UNION {Refs(w, r) : r \in rendered}

RECURSIVE RequestAll(_, _, _)
RequestAll(lessons, requested, links) ==
    IF links = {} THEN requested
    ELSE LET t == CHOOSE x \in links : TRUE
         IN RequestAll(lessons,
                       GetLessonUrlRequested(lessons, FALSE, requested, t),
                       links \ {t})

\* load_lessons without its test of _frozen.
LoadLessonsNeverRefused(frozen) == FALSE

\* load_lessons: "if self._frozen: raise Exception('course is frozen')"
LoadLessonsRefused(frozen) == frozen

\* load_lessons asking the renderer for every slug it is given.
AskedAll(slugs, lessons) == slugs

\* load_lessons: "slugs = set(slugs) - set(self._lessons)", the slugs the
\* renderer is asked for.
Asked(slugs, lessons) == slugs \ lessons

\* load_lessons skipping a slug that is missing from the rendered lessons.
StoreLessonsSkipMissing(lessons, requested, asked, rendered) ==
    {[lessons |-> lessons \cup rendered, requested |-> requested \ rendered,
      result |-> "ok", err_slug |-> NoSlug, asked |-> asked, calls |-> 1]}

\* load_lessons: the loop over the slugs asked for. It stores lessons until
\* it meets a slug that is missing from the rendered lessons and raises; the
\* order of a set's iteration is not fixed, so any of the rendered slugs may
\* have been stored by then.
StoreLessons(lessons, requested, asked, rendered) ==
    IF asked \subseteq rendered
    THEN {[lessons |-> lessons \cup asked, requested |-> requested \ asked,
           result |-> "ok", err_slug |-> NoSlug, asked |-> asked, calls |-> 1]}
    ELSE {[lessons |-> lessons \cup stored, requested |-> requested \ stored,
           result |-> "ValueError: missing from rendered lessons",
           err_slug |-> m, asked |-> asked, calls |-> 1] :
             m \in asked \ rendered, stored \in SUBSET rendered}

\* Course.load_lessons(slugs): the ways it can end.
LoadLessons(w, lessons, requested, frozen, slugs) ==
    IF LoadLessonsRefused(frozen)
    THEN {[lessons |-> lessons, requested |-> requested,
           result |-> "Exception: course is frozen", err_slug |-> NoSlug,
           asked |-> {}, calls |-> 0]}
    ELSE LET asked == Asked(slugs, lessons)
             rendered == Rendered(w, asked)
             req == RequestAll(lessons, requested, ContentLinks(w, rendered))
         IN StoreLessons(lessons, req, asked, rendered)

\* What is recorded of an operation that has ended.
Ended(op, arg, result, err_slug, err_course, keys, n) ==
    [op |-> op, arg |-> arg, result |-> result, err_slug |-> err_slug,
     err_course |-> err_course, keys |-> keys, n |-> n]

\* The course's state at the call of an operation that runs the loop of
\* load_all_lessons (the other operations are single steps: their formulas
\* read the state before the step itself).
Snapshot == [lessons |-> _lessons, requested |-> _requested_lessons,
             frozen |-> _frozen]
NoSnapshot == [lessons |-> {}, requested |-> {}, frozen |-> FALSE]

fixedVars ==
    <<renderer, materials, url_factories, rootVars, courseLoadVars, urlVars, graphVars>>

\* Course.load_lessons(slugs)
load_lessons(slugs) ==
    /\ call = "none"
    /\ pre' = NoSnapshot
    /\ \E o \in LoadLessons(renderer, _lessons, _requested_lessons, _frozen, slugs) :
         /\ _lessons' = o.lessons
         /\ _requested_lessons' = o.requested
         /\ fetched' = o.asked
         /\ calls' = o.calls
         /\ last' = Ended("load_lessons", slugs, o.result, o.err_slug, "", {}, 0)
    /\ UNCHANGED <<_frozen, link_depth, call, fixedVars>>

\* _LessonsDict.__getitem__(key)
lessons_getitem(key) ==
    /\ call = "none"
    /\ pre' = NoSnapshot
    /\ IF key \in _lessons
       THEN /\ last' = Ended("lessons[]", {key}, "ok", NoSlug, "", {key}, 0)
            /\ fetched' = {}
            /\ calls' = 0
            /\ UNCHANGED <<_lessons, _requested_lessons>>
       ELSE \E o \in LoadLessons(renderer, _lessons, _requested_lessons, _frozen, {key}) :
            /\ _lessons' = o.lessons
            /\ _requested_lessons' = o.requested
            /\ fetched' = o.asked
            /\ calls' = o.calls
            /\ last' = IF o.result # "ok"
                        THEN Ended("lessons[]", {key}, o.result, o.err_slug, "", {}, 0)
                        ELSE IF key \in o.lessons
                        THEN Ended("lessons[]", {key}, "ok", NoSlug, "", {key}, 0)
                        ELSE Ended("lessons[]", {key}, "KeyError", key, "", {}, 0)
    /\ UNCHANGED <<_frozen, link_depth, call, fixedVars>>

\* Course.get_lesson_url(slug)
get_lesson_url(slug) ==
    /\ call = "none"
    /\ pre' = NoSnapshot
    /\ _requested_lessons' =
           GetLessonUrlRequested(_lessons, _frozen, _requested_lessons, slug)
    /\ last' = Ended("get_lesson_url", {slug},
                     OutcomeName(GetLessonUrlOutcome(url_factories, _lessons,
                                                     _frozen, slug)),
                     NoSlug, "", {}, 0)
    /\ fetched' = {}
    /\ calls' = 0
    /\ UNCHANGED <<_lessons, _frozen, link_depth, call, fixedVars>>

\* Material.get_url(url_type) of a material of the course
Material_get_url(m, url_type) ==
    /\ call = "none"
    /\ m \in materials
    /\ pre' = NoSnapshot
    /\ _requested_lessons' =
           MaterialUrlRequested(_lessons, _frozen, _requested_lessons, m)
    /\ last' = Ended("Material.get_url", {m.lesson_slug} \ {NoSlug, EmptySlug},
                     OutcomeName(MaterialUrlOutcome(url_factories, _lessons,
                                                    _frozen, m, url_type)),
                     NoSlug, "", {}, 0)
    /\ fetched' = {}
    /\ calls' = 0
    /\ UNCHANGED <<_lessons, _frozen, link_depth, call, fixedVars>>

\* Material.lesson of a material of the course: None without a lesson_slug,
\* course.lessons[lesson_slug] with one ("is not None").
Material_lesson(m) ==
    /\ m \in materials
    /\ IF m.lesson_slug # NoSlug
       THEN lessons_getitem(m.lesson_slug)
       ELSE /\ call = "none"
            /\ pre' = NoSnapshot
            /\ last' = Ended("Material.lesson", {}, "ok", NoSlug, "", {}, 0)
            /\ fetched' = {}
            /\ calls' = 0
            /\ UNCHANGED <<_lessons, _requested_lessons, _frozen, link_depth,
                           call, fixedVars>>

\* __iter__ and __len__ calling load_all_lessons instead of freeze.
OnlyFreezeFreezes == {"freeze"}

\* The operations that run the loop of load_all_lessons: load_all_lessons
\* itself, and those that call freeze: freeze, and the iteration and the
\* length of the lessons mapping.
FreezingOps == {"freeze", "iter(lessons)", "len(lessons)"}
LoopOps == {"load_all_lessons", "freeze", "iter(lessons)", "len(lessons)"}

\* What a loop operation returns when it returns normally.
Returned(op, lessons) ==
    Ended(op, {}, "ok", NoSlug, "",
          IF op = "iter(lessons)" THEN lessons ELSE {},
          IF op = "len(lessons)" THEN Cardinality(lessons) ELSE 0)

\* freeze setting _frozen whether load_all_lessons returns or raises.
FrozenAfterAnyEnd(op, frozen, result) ==
    IF op \in {"freeze", "iter(lessons)", "len(lessons)"} THEN TRUE ELSE frozen

\* freeze: "self.load_all_lessons(); self._frozen = True". _frozen after
\* load_all_lessons has ended with result: an exception leaves it as it was.
FrozenAfter(op, frozen, result) ==
    IF op \in FreezingOps /\ result = "ok" THEN TRUE ELSE frozen

\* load_all_lessons without its depth guard.
DepthNeverExceeded(depth) == FALSE

\* load_all_lessons: "if link_depth < 0: raise ValueError"
DepthExceeded(depth) == depth < 0

\* The call of a loop operation: on a frozen course all of them return at
\* once (load_all_lessons and freeze test _frozen first); otherwise
\* load_all_lessons drops the materialized slugs from the requested ones,
\* sets link_depth and enters its loop.
CallLoopOp(op) ==
    /\ call = "none"
    /\ pre' = Snapshot
    /\ fetched' = {}
    /\ calls' = 0
    /\ IF _frozen
       THEN /\ last' = Returned(op, _lessons)
            /\ UNCHANGED <<_lessons, _requested_lessons, _frozen, link_depth, call>>
       ELSE /\ _requested_lessons' = _requested_lessons \ _lessons
            /\ link_depth' = LinkDepth
            /\ call' = op
            /\ UNCHANGED <<_lessons, _frozen, last>>
    /\ UNCHANGED fixedVars

load_all_lessons == CallLoopOp("load_all_lessons")
freeze == CallLoopOp("freeze")
lessons_iter == CallLoopOp("iter(lessons)")
lessons_len == CallLoopOp("len(lessons)")

\* The loop of load_all_lessons ends (its condition is false, or the break):
\* load_all_lessons returns; freeze then sets _frozen, and iteration and
\* length read _lessons.
LoopReturn ==
    /\ last' = Returned(call, _lessons)
    /\ _frozen' = FrozenAfter(call, _frozen, "ok")
    /\ call' = "none"
    /\ UNCHANGED <<_lessons, link_depth>>

\* One test of the loop's condition, and one round of its body when it holds.
LoopIteration ==
    /\ call # "none"
    /\ UNCHANGED <<pre, fixedVars>>
    /\ IF _requested_lessons = {}
       THEN LoopReturn /\ UNCHANGED <<_requested_lessons, fetched, calls>>
       ELSE LET req == _requested_lessons \ _lessons
            IN IF req = {}
               THEN /\ LoopReturn
                    /\ _requested_lessons' = req
                    /\ UNCHANGED <<fetched, calls>>
               ELSE \E o \in LoadLessons(renderer, _lessons, req, _frozen, req) :
                    /\ _lessons' = o.lessons
                    /\ _requested_lessons' = o.requested
                    /\ fetched' = fetched \cup o.asked
                    /\ calls' = calls + o.calls
                    /\ link_depth' = link_depth - 1
                    /\ IF o.result # "ok"
                       THEN /\ call' = "none"
                            /\ _frozen' = FrozenAfter(call, _frozen, o.result)
                            /\ last' = Ended(call, {}, o.result, o.err_slug, "", {}, 0)
                       ELSE IF DepthExceeded(link_depth - 1)
                       THEN /\ call' = "none"
                            /\ _frozen' = FrozenAfter(call, _frozen,
                                     "ValueError: lessons are linked too deeply")
                            /\ last' = Ended(call, {},
                                     "ValueError: lessons are linked too deeply",
                                     NoSlug, CourseSlug, {}, 0)
                       ELSE UNCHANGED <<call, last, _frozen>>

NoOperation == Ended("", {}, "", NoSlug, "", {}, 0)

\* ------------------------------------------------------- the URL of a node
\* A node, as far as its URL goes: its type, and the fields that
\* Material.get_url and License.get_url read.
Node(path, lesson_slug, external_url, url) ==
    [type |-> TypeOf(path), path |-> path, lesson_slug |-> lesson_slug,
     external_url |-> external_url, url |-> url]

SessionPath == Append(CoursePath, <<"Session", "s">>)

MaterialNode(m) ==
    Node(Append(SessionPath, <<"Material", "m">>), m.lesson_slug, m.external_url, "")

UrlNodes ==
    {Node(path, NoSlug, "", "") :
        path \in {CoursePath, SessionPath, LessonPath(1),
                  Append(LessonPath(1), <<"Page", "index">>)}}
    \cup {MaterialNode(m) : m \in {LessonMaterial(1), LinkMaterial, BareMaterial}}
    \cup {Node(<<(<<"License", "mit">>)>>, NoSlug, "", "https://license")}

\* node.get_url(url_type, external=external): Material and License override
\* Model.get_url.
GetUrl(uf, lessons, frozen, node, url_type, external) ==
    CASE node.type = "Material" ->
             MaterialUrlOutcome(uf, lessons, frozen, node, url_type)
      [] node.type = "License" -> Return(<<node.url>>)
      [] OTHER -> Model_get_url(uf, node.path, url_type, external)

\* The mutant of Catches: the handler matches the class named and no subclass.
CatchesExactly(exc, cls) == exc = cls

\* "except cls:" catches an exception of class exc.
Catches(exc, cls) == IsInstance(exc, cls)

\* Model._url: get_url(external=True), and None if that fails with NoURL.
Model_url(uf, lessons, frozen, node) ==
    LET o == GetUrl(uf, lessons, frozen, node, "web", "external=True")
    IN IF o.exc # "" /\ Catches(o.exc, "NoURL") THEN Return(<<"None">>) ELSE o

UrlRead(op, node, url_type, external, got, o) ==
    [op |-> op, node |-> node, url_type |-> url_type, got |-> got,
     external |-> external, exc |-> o.exc, val |-> o.val, pks |-> o.pks]

NoUrlRead ==
    UrlRead("", Node(<<>>, NoSlug, "", ""), "", "", Return(<<>>), Return(<<>>))

urlFixedVars == <<renderer, materials, _lessons, _frozen, link_depth, call, pre,
                  fetched, calls, last, url_factories, rootVars, courseLoadVars,
                  graphVars>>

\* node.get_url(url_type, external=external)
Node_get_url(node, url_type, external) ==
    /\ LET o == GetUrl(url_factories, _lessons, _frozen, node, url_type, external)
       IN urlLast' = UrlRead("get_url", node, url_type, external, o, o)
    /\ _requested_lessons' =
           IF node.type = "Material"
           THEN MaterialUrlRequested(_lessons, _frozen, _requested_lessons, node)
           ELSE _requested_lessons
    /\ UNCHANGED urlFixedVars

\* node._url
Node_url(node) ==
    /\ urlLast' = UrlRead("_url", node, "web", "external=True",
                          GetUrl(url_factories, _lessons, _frozen, node, "web",
                                 "external=True"),
                          Model_url(url_factories, _lessons, _frozen, node))
    /\ _requested_lessons' =
           IF node.type = "Material"
           THEN MaterialUrlRequested(_lessons, _frozen, _requested_lessons, node)
           ELSE _requested_lessons
    /\ UNCHANGED urlFixedVars

\* Root.url_factories as the caller may have filled it: any set of kinds,
\* each with resolvers for none, some or all of the node types.
ResolverSets ==
    {{}, {"Course", "Session"}, {"Lesson"}, {"Page"}, {"Lesson", "Page"}, NodeTypes}

UrlFactories == UNION {[D -> ResolverSets] : D \in SUBSET UrlKinds}

\* ------------------------------------------------- the dates of a Course
\* A date is a year and a day of that year; NoDate is None.
NoDate == [year |-> 0, day |-> 0]
Dates == [year : 1..MaxYear, day : 1..MaxDay]

DateLE(a, b) == a.year < b.year \/ (a.year = b.year /\ a.day <= b.day)

\* [getattr(s, 'date', None) for s in self.sessions.values()], the truthy ones
SessionDates(sessions) == {sessions[i] : i \in DOMAIN sessions} \ {NoDate}

\* min(..., default=None)
MinDate(ds) ==
    IF ds = {} THEN NoDate ELSE CHOOSE d \in ds : \A e \in ds : DateLE(d, e)

\* max(..., default=None)
MaxDate(ds) ==
    IF ds = {} THEN NoDate ELSE CHOOSE d \in ds : \A e \in ds : DateLE(e, d)

\* The default factory of start_date.
StartDateFactory(sessions) == MinDate(SessionDates(sessions))

\* The default factory of end_date.
EndDateFactory(sessions) == MaxDate(SessionDates(sessions))

\* A Field that takes part in input: the document's value when the key is
\* there, the default factory's otherwise. NoDate as "given" is a missing key.
FieldLoad(given, default) == IF given # NoDate THEN given ELSE default

\* Course documents: the sessions' optional dates, and the optional keys
\* start_date and end_date.
CourseDocs ==
    [sessions : UNION {[1..n -> Dates \cup {NoDate}] : n \in 0..MaxSessions},
     start_date : Dates \cup {NoDate},
     end_date : Dates \cup {NoDate}]

\* Course.load_local(slug, ...): the Course object built from the document d
\* that the renderer's get_course returns, with the identity id.
Course_load_local(id, slug, d) ==
    [id |-> id, slug |-> slug,
     start_date |-> FieldLoad(d.start_date, StartDateFactory(d.sessions)),
     end_date |-> FieldLoad(d.end_date, EndDateFactory(d.sessions))]

NoCourse == [id |-> 0, slug |-> "", start_date |-> NoDate, end_date |-> NoDate]
NoDoc == [sessions |-> <<>>, start_date |-> NoDate, end_date |-> NoDate]

\* course = Course.load_local(CourseSlug, ...), the renderer returning doc
load_local ==
    /\ course = NoCourse
    /\ course' = Course_load_local(1, CourseSlug, doc)
    /\ UNCHANGED <<doc, loaderVars, url_factories, urlVars, rootVars, graphVars>>

\* ------------------------------------------------------ the indices of Root
Slugs == {"courses/a", "courses/b"}

Empty == [x \in {} |-> NoCourse]

\* The three mappings of a Root, and the exception that ended the call.
RootOf(cs, ry, ss, exc) ==
    [courses |-> cs, run_years |-> ry, self_study_courses |-> ss, exc |-> exc]

\* for year in range(year, last + 1): del self.run_years[year][slug]
RECURSIVE DelRuns(_, _, _, _)
DelRuns(r, slug, year, lastYear) ==
    IF year > lastYear THEN r
    ELSE IF year \notin DOMAIN r.run_years
            \/ slug \notin DOMAIN r.run_years[year]
    THEN [r EXCEPT !.exc = "KeyError"]
    ELSE DelRuns([r EXCEPT !.run_years[year] = Del(@, slug)],
                 slug, year + 1, lastYear)

\* add_course, its first half: the entries of the course that slug named so
\* far are deleted from the index they are in.
RemoveOld(r, slug) ==
    IF slug \notin DOMAIN r.courses THEN r
    ELSE LET old == r.courses[slug]
         IN IF old.start_date # NoDate
            THEN IF old.end_date = NoDate
                 THEN [r EXCEPT !.exc = "AttributeError"]
                 ELSE DelRuns(r, slug, old.start_date.year, old.end_date.year)
            ELSE IF slug \notin DOMAIN r.self_study_courses
                 THEN [r EXCEPT !.exc = "KeyError"]
                 ELSE [r EXCEPT !.self_study_courses = Del(@, slug)]

\* for year in range(year, last + 1): the RunYear is created if it is not
\* there, and the course is stored in it.
RECURSIVE PutRuns(_, _, _, _)
PutRuns(r, c, year, lastYear) ==
    IF year > lastYear THEN r
    ELSE PutRuns([r EXCEPT !.run_years =
                      Put(@, year, Put(IF year \in DOMAIN @ THEN @[year] ELSE Empty,
                                       c.slug, c))],
                 c, year + 1, lastYear)

\* add_course, its second half: the course is stored under its slug, then in
\* the RunYears of its span or among the self-study courses.
InsertCourse(r, c) ==
    LET r1 == [r EXCEPT !.courses = Put(@, c.slug, c)]
    IN IF c.start_date # NoDate
       THEN IF c.end_date = NoDate
            THEN [r1 EXCEPT !.exc = "AttributeError"]
            ELSE PutRuns(r1, c, c.start_date.year, c.end_date.year)
       ELSE [r1 EXCEPT !.self_study_courses = Put(@, c.slug, c)]

\* Root.add_course(course): the Root afterwards; what was done before an
\* exception stays done.
Root_add_course(r, c) ==
    LET r1 == RemoveOld(r, c.slug)
    IN IF r1.exc # "" THEN r1 ELSE InsertCourse(r1, c)

AddEnded(op, slug, id, exc) == [op |-> op, slug |-> slug, id |-> id, exc |-> exc]

\* _load_local_course: self.add_course(Course.load_local(slug, ...)), the
\* renderer returning the document d.
add_course(slug, d) ==
    /\ nextId <= MaxObjects
    /\ LET r == Root_add_course(RootOf(courses, run_years, self_study_courses, ""),
                                Course_load_local(nextId, slug, d))
       IN /\ courses' = r.courses
          /\ run_years' = r.run_years
          /\ self_study_courses' = r.self_study_courses
          /\ rootLast' = AddEnded("add_course", slug, nextId, r.exc)
    /\ nextId' = nextId + 1
    /\ UNCHANGED <<loaderVars, url_factories, urlVars, courseLoadVars, graphVars>>

\* ------------------------------------------------- the time of a Session
\* tzinfo values: NoTz is None, an offset is what %z parsed, a zone is what
\* dateutil.tz.gettz returns for a name it knows.
NoTz == ""
TzNames == {"Europe/Prague", "UTC"}
GetTz(name) ==
    CASE name = "Europe/Prague" -> "tzfile(Europe/Prague)"
      [] name = "UTC" -> "tzfile(UTC)"

\* _OLD_DEFAULT_TIMEZONE_NAME, _OLD_DEFAULT_TIMEZONE
OldDefaultTimezoneName == "Europe/Prague"
OldDefaultTimezone == GetTz(OldDefaultTimezoneName)

\* API versions, compared as Python compares tuples.
Versions == {<<0, 0>>, <<0, 2>>, <<0, 3>>}
VersionLT(a, b) == a[1] < b[1] \/ (a[1] = b[1] /\ a[2] < b[2])

\* The mutant of IsLegacy: no version is treated as older than 0.3.
IsLegacyNever(version) == FALSE

\* context.version < (0, 3)
IsLegacy(version) == VersionLT(version, <<0, 3>>)

\* The VersionField _timezone_name: the key "timezone" of the document is
\* read from version 0.3 on; "" is None.
TimezoneNameLoaded(version, name) == IF IsLegacy(version) THEN "" ELSE name

\* Course.set_timezone: the course's timezone.
set_timezone(version, name) ==
    IF IsLegacy(version) THEN OldDefaultTimezone
    ELSE IF name # "" THEN GetTz(name)
    ELSE NoTz

\* datetime.datetime and datetime.time values.
DateTime(date, clock, tzinfo) ==
    [type |-> "datetime", date |-> date, clock |-> clock, tzinfo |-> tzinfo]
TimeOfDay(clock, tzinfo) ==
    [type |-> "time", date |-> NoDate, clock |-> clock, tzinfo |-> tzinfo]

\* An optional value: {} is None or a missing key, {v} is v.
Opt(S) == {{}} \cup {{v} : v \in S}
The(opt) == CHOOSE v \in opt : TRUE

\* set(self.time): the keys of the time mapping.
TimeKeys(time) == {k \in {"start", "end", "other"} : time[k] # {}}

\* The mutant of Combined: nothing is resolved without the session's date.
CombinedNeedsDate(s, default_time, kind) ==
    IF s.date = NoDate THEN {}
    ELSE IF s.time[kind] # {}
    THEN LET t == The(s.time[kind])
         IN IF t.type = "datetime" THEN {t}
            ELSE {DateTime(s.date, t.clock, t.tzinfo)}
    ELSE IF default_time # {}
    THEN {DateTime(s.date, The(default_time)[kind], NoTz)}
    ELSE {}

\* The datetime of one kind before its timezone is looked at, {} when the
\* session has no time: a datetime is kept, a time of day is combined with
\* the session's date, a missing one is built from the date and the course's
\* default_time.
Combined(s, default_time, kind) ==
    IF s.time[kind] # {}
    THEN LET t == The(s.time[kind])
         IN IF t.type = "datetime" THEN {t}
            ELSE IF s.date # NoDate
            THEN {DateTime(s.date, t.clock, t.tzinfo)}
            ELSE {}
    ELSE IF s.date # NoDate /\ default_time # {}
    THEN {DateTime(s.date, The(default_time)[kind], NoTz)}
    ELSE {}

\* The mutant of Stamped: a naive datetime is kept as it is.
StampedNever(t, timezone) == t

\* time.replace(tzinfo=self.course.timezone)
Stamped(t, timezone) == [t EXCEPT !.tzinfo = timezone]

TimeFixed(status, time, kind, slug) ==
    [status |-> status, time |-> time, err_kind |-> kind, err_slug |-> slug]

\* One round of the loop of _fix_time.
FixKind(s, default_time, timezone, kind) ==
    LET c == Combined(s, default_time, kind)
    IN IF c = {} THEN TimeFixed("absent", {}, "", "")
       ELSE IF The(c).tzinfo # NoTz THEN TimeFixed("ok", c, "", "")
       ELSE IF timezone = NoTz
       THEN TimeFixed("ValueError: missing timezone information", {}, kind, s.slug)
       ELSE TimeFixed("ok", {Stamped(The(c), timezone)}, "", "")

\* for kind in 'start', 'end'
FixOrder == <<"start", "end">>

\* Session._fix_time: self.time afterwards ({} is None), or the ValueError.
Session_fix_time(s, default_time, timezone) ==
    IF s.time.given /\ TimeKeys(s.time) # {"start", "end"}
    THEN TimeFixed("ValueError: must have start and end", {}, "", "")
    ELSE LET a == FixKind(s, default_time, timezone, FixOrder[1])
             b == FixKind(s, default_time, timezone, FixOrder[2])
         IN IF a.status = "absent" THEN TimeFixed("ok", {}, "", "")
            ELSE IF a.status # "ok" THEN a
            ELSE IF b.status = "absent" THEN TimeFixed("ok", {}, "", "")
            ELSE IF b.status # "ok" THEN b
            ELSE TimeFixed("ok",
                           {[k \in {"start", "end"} |->
                               IF k = FixOrder[1] THEN The(a.time) ELSE The(b.time)]},
                           "", "")

\* The values SessionTimeConverter.load gives: a full datetime is parsed
\* with its offset only (without one neither format matches and the load
\* fails before the session exists), a time of day with or without one.
TimeDate == [year |-> 1, day |-> 1]
TimeVals ==
    {DateTime(TimeDate, "09:00", "+0100")}
    \cup {TimeOfDay("10:00", tz) : tz \in {NoTz, "+0100"}}

NoSessionTime == [given |-> FALSE, start |-> {}, end |-> {}, other |-> {}]
SessionTimes ==
    {NoSessionTime}
    \cup [given : {TRUE}, start : Opt(TimeVals), end : Opt(TimeVals),
          other : Opt({TimeOfDay("10:00", NoTz)})]

\* What a session's time is resolved from: the version and the timezone name
\* of the course document, the course's default_time, and the session.
TimeInputs ==
    [version : Versions,
     timezone : TzNames \cup {""},
     default_time : Opt({[start |-> "09:00", end |-> "12:00"]}),
     session : [slug : {"s1"}, date : {NoDate, TimeDate}, time : SessionTimes]]

NoTimeInput ==
    [version |-> <<0, 0>>, timezone |-> "", default_time |-> {},
     session |-> [slug |-> "", date |-> NoDate, time |-> NoSessionTime]]

TimeLoaded(done, timezone_name, timezone, fixed) ==
    [done |-> done, timezone_name |-> timezone_name, timezone |-> timezone,
     fixed |-> fixed]

NoTimeLoaded == TimeLoaded(FALSE, "", NoTz, TimeFixed("", {}, "", ""))

\* The load of a course as far as times go: the timezone after-load hook,
\* then the time after-load hook of the session.
load_session_time ==
    /\ ~timeOut.done
    /\ timeOut' =
           TimeLoaded(TRUE,
                      IF IsLegacy(timeIn.version) THEN OldDefaultTimezoneName
                      ELSE TimezoneNameLoaded(timeIn.version, timeIn.timezone),
                      set_timezone(timeIn.version,
                                   TimezoneNameLoaded(timeIn.version, timeIn.timezone)),
                      Session_fix_time(timeIn.session, timeIn.default_time,
                                       set_timezone(timeIn.version,
                                           TimezoneNameLoaded(timeIn.version,
                                                              timeIn.timezone))))
    /\ UNCHANGED <<timeIn, pksLast, matIn, matOut, chainIn, chainOut, loading,
                   loaderVars, url_factories, urlVars, rootVars,
                   courseLoadVars>>

\* --------------------------------------------------- the load of a Material
\* bool(value) of an optional string: None and "" are false.
Truthy(opt) == opt # {} /\ The(opt) # ""

\* The documents of a Material: slug, type, lesson_slug and external_url.
MaterialDocs ==
    [slug : Opt({"m1"}),
     type : {"lesson", "link", "special"},
     lesson_slug : Opt({"", "1", "2"}),
     external_url : Opt({"https://x", "https://y"})]

NoMaterialDoc ==
    [slug |-> {}, type |-> "", lesson_slug |-> {}, external_url |-> {}]

\* The mutant of Incompatible: no pair of values is refused.
IncompatibleNever(m) == FALSE

\* Material._validate_lesson_slug: whether it raises.
Incompatible(m) == Truthy(m.lesson_slug) /\ Truthy(m.external_url)

MaterialLoaded(done, status, node) ==
    [done |-> done, status |-> status, node |-> node]

NoMaterialLoaded == MaterialLoaded(FALSE, "", {})

\* The load of a Material: the fields are assigned, then the after-load hook
\* of lesson_slug runs; node is the Material, {} when the load failed.
Material_load(d) ==
    IF Incompatible(d)
    THEN MaterialLoaded(TRUE,
             "ValueError: external_url and lesson_slug are incompatible", {})
    ELSE MaterialLoaded(TRUE, "ok", {d})

load_material ==
    /\ ~matOut.done
    /\ matOut' = Material_load(matIn)
    /\ UNCHANGED <<matIn, pksLast, timeIn, timeOut, chainIn, chainOut, loading,
                   loaderVars, url_factories, urlVars, rootVars, courseLoadVars>>

\* ------------------------------------------------------------ prev and next
\* A material of a session as far as the chain goes: with a lesson_slug or
\* without one.
MaxMaterials == 3
ChainMaterials == {[lesson_slug |-> ls] : ls \in Opt({"1"})}
SessionMaterials ==
    UNION {[1..n -> ChainMaterials] : n \in 0..MaxMaterials}
ChainDocs ==
    UNION {[1..n -> SessionMaterials] : n \in 0..MaxSessions}

\* set_prev_next: prev and next of the k-th element of a sequence; an
\* element is named by its index in the list it lives in, {} is None.
PrevOf(sequence, k) == IF k = 1 THEN {} ELSE {sequence[k - 1]}
NextOf(sequence, k) == IF k = Len(sequence) THEN {} ELSE {sequence[k + 1]}

Indices(list) == [i \in 1..Len(list) |-> i]

\* The mutant of LessonIndices: every material is part of the chain.
LessonIndicesAll(list) == Indices(list)

\* m for m in self.materials if m.lesson_slug
LessonIndices(list) ==
    LET HasLesson(i) == Truthy(list[i].lesson_slug)
    IN SelectSeq(Indices(list), HasLesson)

PositionIn(sequence, i) == CHOOSE k \in 1..Len(sequence) : sequence[k] = i

\* Session._index_materials: the materials with prev and next set on those
\* of the chain; linked tells whether the attributes were assigned at all.
Session_index_materials(list) ==
    LET chain == LessonIndices(list)
    IN [i \in 1..Len(list) |->
          IF \E k \in 1..Len(chain) : chain[k] = i
          THEN [lesson_slug |-> list[i].lesson_slug, linked |-> TRUE,
                prev |-> PrevOf(chain, PositionIn(chain, i)),
                next |-> NextOf(chain, PositionIn(chain, i))]
          ELSE [lesson_slug |-> list[i].lesson_slug, linked |-> FALSE,
                prev |-> {}, next |-> {}]]

\* Course._sessions_after_load: set_prev_next(self.sessions.values()), each
\* session having indexed its materials when it was loaded.
Course_sessions_after_load(docs) ==
    [i \in 1..Len(docs) |->
        [materials |-> Session_index_materials(docs[i]),
         prev |-> PrevOf(Indices(docs), i),
         next |-> NextOf(Indices(docs), i)]]

ChainLoaded(done, sessions) == [done |-> done, sessions |-> sessions]

load_sessions ==
    /\ ~chainOut.done
    /\ chainOut' = ChainLoaded(TRUE, Course_sessions_after_load(chainIn))
    /\ UNCHANGED <<chainIn, pksLast, timeIn, timeOut, matIn, matOut, loading,
                   loaderVars, url_factories, urlVars, rootVars, courseLoadVars>>

\* ------------------------------------------- the order of a course's load
\* The mutant of CourseFields: sessions declared before the fields its
\* sessions read.
CourseFieldsSessionsFirst ==
    <<"sessions", "default_time", "_timezone_name", "start_date">>

\* The Fields of Course that take part, in the order of their declaration:
\* default_time, _timezone_name (with the hook set_timezone), sessions, and
\* start_date as one of those declared after sessions.
CourseFields == <<"default_time", "_timezone_name", "sessions", "start_date">>

\* A course under load: the fields assigned so far, its attributes ({} is an
\* attribute not set yet, {v} one set to v), and what the load of sessions
\* found when it built the session.
CourseLoading(assigned, default_time, timezone_name, timezone, sessions, seen) ==
    [assigned |-> assigned, default_time |-> default_time,
     _timezone_name |-> timezone_name, timezone |-> timezone,
     sessions |-> sessions, seen |-> seen]

NotLoading == CourseLoading(<<>>, {}, {}, {}, {}, {})

\* Session._fix_time on a course under load. It reads course.default_time
\* for a session with a date and no time, and course.timezone when it meets
\* a naive datetime; an attribute not set yet is an AttributeError.
SessionBuilt(c, s) ==
    IF ~s.time.given /\ s.date # NoDate /\ c.default_time = {}
    THEN TimeFixed("AttributeError: default_time", {}, "", "")
    ELSE LET dt == IF c.default_time = {} THEN {} ELSE The(c.default_time)
         IN IF /\ c.timezone = {}
               /\ Session_fix_time(s, dt, NoTz).status =
                      "ValueError: missing timezone information"
            THEN TimeFixed("AttributeError: timezone", {}, "", "")
            ELSE Session_fix_time(s, dt,
                                  IF c.timezone = {} THEN NoTz ELSE The(c.timezone))

\* The load of one Field into the course: the converted value is assigned,
\* then the after-load hooks of the Field run. The converter of sessions
\* builds the sessions, each with its own fields and hooks.
FieldLoaded(c, name, in) ==
    LET d == [c EXCEPT !.assigned = Append(c.assigned, name)]
    IN CASE name = "default_time" ->
                [d EXCEPT !.default_time = {in.default_time}]
         [] name = "_timezone_name" ->
                [d EXCEPT
                   !._timezone_name =
                       {IF IsLegacy(in.version) THEN OldDefaultTimezoneName
                        ELSE TimezoneNameLoaded(in.version, in.timezone)},
                   !.timezone =
                       {set_timezone(in.version,
                                     TimezoneNameLoaded(in.version, in.timezone))}]
         [] name = "sessions" ->
                [d EXCEPT
                   !.sessions = {SessionBuilt(c, in.session)},
                   !.seen = {[assigned |-> c.assigned,
                              default_time |-> c.default_time,
                              timezone |-> c.timezone]}]
         [] OTHER -> d

\* The next Field of the course is loaded.
load_next_field ==
    /\ Len(loading.assigned) < Len(CourseFields)
    /\ loading' = FieldLoaded(loading, CourseFields[Len(loading.assigned) + 1],
                              timeIn)
    /\ UNCHANGED <<timeIn, timeOut, pksLast, matIn, matOut, chainIn, chainOut,
                   loaderVars, url_factories, urlVars, rootVars, courseLoadVars>>

\* ------------------------------------------------------- specifications
\* The values of the variables a specification does not use.
IdleLoader ==
    /\ renderer = [kind |-> "chain", len |-> 0, missing |-> 0]
    /\ materials = {}
    /\ _lessons = {}
    /\ _requested_lessons = {}
    /\ _frozen = FALSE
    /\ link_depth = LinkDepth
    /\ call = "none"
    /\ pre = NoSnapshot
    /\ fetched = {}
    /\ calls = 0
    /\ last = NoOperation

IdleUrl == urlLast = NoUrlRead

IdlePks == pksLast = NoPksCall

IdleTime == timeIn = NoTimeInput /\ timeOut = NoTimeLoaded

IdleMaterial == matIn = NoMaterialDoc /\ matOut = NoMaterialLoaded

IdleChain == chainIn = <<>> /\ chainOut = ChainLoaded(FALSE, <<>>)

IdleOrder == loading = NotLoading

IdleGraph == IdlePks /\ IdleTime /\ IdleMaterial /\ IdleChain /\ IdleOrder

IdleCourseLoad == doc = NoDoc /\ course = NoCourse

\* Root.__init__: no course yet.
InitRootIndices ==
    /\ courses = Empty
    /\ run_years = Empty
    /\ self_study_courses = Empty
    /\ nextId = 1
    /\ rootLast = AddEnded("", "", 0, "")

IdleRoot == InitRootIndices

\* A course as Course.load_local returns it: nothing materialized, not
\* frozen, the lessons of its materials requested.
InitCourse(renderers, slugSets) ==
    /\ renderer \in renderers
    /\ \E M \in slugSets :
          materials = {LessonMaterial(s) : s \in M}
                          \cup {LinkMaterial, BareMaterial, EmptySlugMaterial}
    /\ _lessons = {}
    /\ _requested_lessons = SessionsAfterLoad(materials)
    /\ _frozen = FALSE
    /\ link_depth = LinkDepth
    /\ call = "none"
    /\ pre = NoSnapshot
    /\ fetched = {}
    /\ calls = 0
    /\ last = NoOperation

NextLoader ==
    \/ \E slugs \in SUBSET (1..MaxSlug) : load_lessons(slugs)
    \/ \E key \in 1..MaxSlug : lessons_getitem(key)
    \/ \E slug \in 1..MaxSlug : get_lesson_url(slug)
    \/ \E m \in materials, url_type \in UrlKinds : Material_get_url(m, url_type)
    \/ \E m \in materials : Material_lesson(m)
    \/ load_all_lessons
    \/ freeze
    \/ lessons_iter
    \/ lessons_len
    \/ LoopIteration

InitLoader ==
    /\ InitCourse(Renderers, SUBSET (1..MaxSlug))
    /\ url_factories = AllWebUrls
    /\ IdleRoot /\ IdleCourseLoad /\ IdleUrl /\ IdleGraph

SpecLoader == InitLoader /\ [][NextLoader]_vars

\* The same course over deep contents. A call that has been made runs on:
\* the caller is one thread, and the loop waits for nothing but the renderer.
InitDeep ==
    /\ InitCourse(DeepRenderers, {{}, {1}})
    /\ url_factories = AllWebUrls
    /\ IdleRoot /\ IdleCourseLoad /\ IdleUrl /\ IdleGraph

FairDeep == InitDeep /\ [][NextLoader]_vars /\ WF_vars(LoopIteration)

\* URL reads on the nodes of a course, under any table of resolvers.
InitUrl ==
    /\ InitCourse({[kind |-> "chain", len |-> 1, missing |-> 0]}, {{1}})
    /\ IdleRoot
    /\ IdleCourseLoad
    /\ IdleUrl
    /\ IdleGraph
    /\ url_factories \in UrlFactories

NextUrl ==
    \/ \E node \in UrlNodes, url_type \in UrlKinds,
          external \in {"external=False", "external=True"} :
          Node_get_url(node, url_type, external)
    \/ \E node \in UrlNodes : Node_url(node)
    \/ freeze
    \/ LoopIteration

SpecUrl == InitUrl /\ [][NextUrl]_vars

\* get_pks on the nodes of a graph.
InitPks ==
    /\ IdleLoader
    /\ IdleRoot
    /\ IdleUrl
    /\ IdleCourseLoad
    /\ url_factories = AllWebUrls
    /\ pksLast = NoPksCall
    /\ IdleTime /\ IdleMaterial /\ IdleChain /\ IdleOrder

NextPks == \E path \in Positions : Node_get_pks(path)

SpecPks == InitPks /\ [][NextPks]_vars

\* The resolution of one session's time.
InitTime ==
    /\ IdleLoader
    /\ IdleRoot
    /\ IdleUrl
    /\ IdleCourseLoad
    /\ IdlePks /\ IdleMaterial /\ IdleChain /\ IdleOrder
    /\ url_factories = AllWebUrls
    /\ timeIn \in TimeInputs
    /\ timeOut = NoTimeLoaded

SpecTime == InitTime /\ [][load_session_time]_vars

\* The load of one Material document.
InitMaterial ==
    /\ IdleLoader
    /\ IdleRoot
    /\ IdleUrl
    /\ IdleCourseLoad
    /\ IdlePks /\ IdleTime /\ IdleChain /\ IdleOrder
    /\ url_factories = AllWebUrls
    /\ matIn \in MaterialDocs
    /\ matOut = NoMaterialLoaded

SpecMaterial == InitMaterial /\ [][load_material]_vars

\* The load of the sessions of one course document.
InitChain ==
    /\ IdleLoader
    /\ IdleRoot
    /\ IdleUrl
    /\ IdleCourseLoad
    /\ IdlePks /\ IdleTime /\ IdleMaterial /\ IdleOrder
    /\ url_factories = AllWebUrls
    /\ chainIn \in ChainDocs
    /\ chainOut = ChainLoaded(FALSE, <<>>)

SpecChain == InitChain /\ [][load_sessions]_vars

\* The load of one course document, Field by Field.
InitOrder ==
    /\ IdleLoader
    /\ IdleRoot
    /\ IdleUrl
    /\ IdleCourseLoad
    /\ IdlePks /\ IdleMaterial /\ IdleChain
    /\ url_factories = AllWebUrls
    /\ timeIn \in TimeInputs
    /\ timeOut = NoTimeLoaded
    /\ loading = NotLoading

SpecOrder == InitOrder /\ [][load_next_field]_vars

\* The load of one course document.
InitCourseLoad ==
    /\ IdleLoader
    /\ IdleRoot
    /\ IdleUrl
    /\ IdleGraph
    /\ url_factories = AllWebUrls
    /\ doc \in CourseDocs
    /\ course = NoCourse

SpecCourseLoad == InitCourseLoad /\ [][load_local]_vars

\* Courses loaded and added to a Root, one after the other. Their documents
\* have one session at most: add_course reads the two dates only.
RootDocs == {d \in CourseDocs : Len(d.sessions) <= 1}

InitRoot ==
    /\ IdleLoader
    /\ IdleUrl
    /\ IdleCourseLoad
    /\ IdleGraph
    /\ url_factories = AllWebUrls
    /\ InitRootIndices

NextRoot == \E slug \in Slugs, d \in RootDocs : add_course(slug, d)

SpecRoot == InitRoot /\ [][NextRoot]_vars

\* ------------------------------------------------------------------ claims

AllSlugSets == SUBSET (1..MaxSlug)

\* C1: once freeze has returned normally, _frozen stays true in every later
\* state, and every load_lessons(slugs) that ends on the frozen course ends
\* with the exception "course is frozen" (whatever the slugs: the empty set
\* and materialized slugs included) and materializes nothing.
C1_FreezeMonotonic ==
    /\ [][_frozen => _frozen']_vars
    /\ [][\A slugs \in AllSlugSets :
            (_frozen /\ load_lessons(slugs)) =>
                /\ last'.result = "Exception: course is frozen"
                /\ _lessons' = _lessons]_vars
    /\ [](_frozen /\ last.op = "load_lessons"
            => last.result = "Exception: course is frozen")

C1_Witness ==
    /\ _frozen
    /\ last.op = "load_lessons"
    /\ last.arg # {}
    /\ last.arg \subseteq _lessons
    /\ last.result = "Exception: course is frozen"

\* C2: on a frozen course no step of any operation changes the set of
\* materialized lessons, and the iteration and the length of the lessons
\* mapping return the keys and the count of that set.
C2_FrozenLessonsStable ==
    /\ [][_frozen => _lessons' = _lessons]_vars
    /\ [](_frozen /\ last.op = "iter(lessons)" /\ last.result = "ok"
            => last.keys = _lessons)
    /\ [](_frozen /\ last.op = "len(lessons)" /\ last.result = "ok"
            => last.n = Cardinality(_lessons))

C2_Witness ==
    /\ _frozen
    /\ _lessons # {}
    /\ last.op = "lessons[]"
    /\ last.result = "Exception: course is frozen"

\* C3: on an unfrozen course load_lessons(S) asks the renderer for exactly
\* S minus the materialized slugs; called again right after a call with the
\* same S that succeeded, it fetches no slug and leaves _lessons unchanged.
C3_LazyLoadIdempotent ==
    [][\A S \in AllSlugSets :
         (~_frozen /\ load_lessons(S)) =>
            /\ fetched' = S \ _lessons
            /\ (last.op = "load_lessons" /\ last.arg = S /\ last.result = "ok"
                  => /\ fetched' = {}
                     /\ _lessons' = _lessons
                     /\ _requested_lessons' = _requested_lessons)]_vars

C3_Witness ==
    /\ ~_frozen
    /\ last.op = "load_lessons"
    /\ last.result = "ok"
    /\ Cardinality(last.arg) >= 2
    /\ last.arg \subseteq _lessons
    /\ fetched = {}

\* C4: a call of load_all_lessons (alone or through freeze) always ends; one
\* that returns normally has made at most LinkDepth (50) rounds of loading,
\* and the round after the 50th ends it with the ValueError that names the
\* course; on a chain of more than 50 lessons, each linking to the next, of
\* which only the first was requested, it ends with that ValueError.
C4_LoopEnded == call = "none" /\ last.op \in LoopOps

C4_DepthGuardInv ==
    /\ calls <= LinkDepth + 1
    /\ (C4_LoopEnded /\ last.result = "ok" => calls <= LinkDepth)
    /\ (C4_LoopEnded /\ calls = LinkDepth + 1 => last.result # "ok")
    /\ (C4_LoopEnded /\ last.result = "ValueError: lessons are linked too deeply"
          => last.err_course = CourseSlug /\ calls = LinkDepth + 1)
    /\ ((C4_LoopEnded
         /\ renderer.kind = "chain" /\ renderer.len > LinkDepth /\ renderer.missing = 0
         /\ pre.lessons = {} /\ pre.requested = {1} /\ ~pre.frozen)
          => (last.result = "ValueError: lessons are linked too deeply"
              /\ last.err_course = CourseSlug))

C4_DepthGuard ==
    /\ []C4_DepthGuardInv
    /\ (call # "none") ~> (call = "none")

C4_Witness ==
    /\ C4_LoopEnded
    /\ renderer.kind = "chain" /\ renderer.len = LinkDepth + 1 /\ renderer.missing = 0
    /\ pre.lessons = {} /\ pre.requested = {1}
    /\ last.result = "ValueError: lessons are linked too deeply"
    /\ calls = LinkDepth + 1

\* C5: a freeze called right after a freeze that returned normally, and a
\* load_all_lessons called right after a load_all_lessons that returned
\* normally, make no renderer call and change none of _lessons,
\* _requested_lessons and _frozen; load_all_lessons on a frozen course
\* returns at once and changes nothing; _frozen becomes true only in the
\* step in which the load_all_lessons of a freeze returns normally.
C5_RunningOrCalled(op) ==
    \/ CallLoopOp(op)
    \/ (call = op /\ LoopIteration)

C5_NoEffect ==
    /\ UNCHANGED <<_lessons, _requested_lessons, _frozen>>
    /\ calls' = 0
    /\ fetched' = {}

C6_IterLenFreeze ==
    last.op \in {"iter(lessons)", "len(lessons)"} /\ last.result = "ok"
      => /\ _frozen
         /\ _requested_lessons = {}
         /\ pre.requested \subseteq _lessons
         /\ (last.op = "iter(lessons)" => last.keys = _lessons)
         /\ (last.op = "len(lessons)" => last.n = Cardinality(_lessons))

C6_Witness ==
    /\ last.op = "len(lessons)"
    /\ last.result = "ok"
    /\ ~pre.frozen
    /\ pre.requested # {}
    /\ last.n >= 2
    /\ _frozen

\* C7: lessons[key] returns the lesson without a renderer call when key is
\* materialized; otherwise it calls load_lessons({key}) once and looks key up
\* again: on an unfrozen course the renderer is asked for exactly {key}, and
\* the read returns the lesson, now materialized, or fails with the
\* ValueError that names key when the rendered lessons lack it.
C7_GetItem ==
    [][\A key \in 1..MaxSlug :
         lessons_getitem(key) =>
            /\ (key \in _lessons =>
                 /\ last'.result = "ok" /\ last'.keys = {key}
                 /\ calls' = 0
                 /\ UNCHANGED <<_lessons, _requested_lessons>>)
            /\ ((key \notin _lessons /\ _frozen) =>
                 /\ last'.result = "Exception: course is frozen"
                 /\ calls' = 0)
            /\ ((key \notin _lessons /\ ~_frozen) =>
                 /\ calls' = 1
                 /\ fetched' = {key}
                 /\ IF key \in Rendered(renderer, {key})
                    THEN /\ last'.result = "ok" /\ last'.keys = {key}
                         /\ key \in _lessons'
                    ELSE /\ last'.result = "ValueError: missing from rendered lessons"
                         /\ last'.err_slug = key
                         /\ _lessons' = _lessons)]_vars

C7_Witness ==
    /\ last.op = "lessons[]"
    /\ last.result = "ValueError: missing from rendered lessons"
    /\ last.err_slug \in last.arg
    /\ renderer.missing \in last.arg
    /\ calls = 1

\* C8: after any sequence of add_course calls, replacements included, every
\* course of Root.courses with dates is in run_years[y] exactly for the years
\* y of its span start_date.year..end_date.year and is no self-study course,
\* every course without dates is a self-study course and in no RunYear, and
\* no entry of a RunYear or of self_study_courses is a replaced course.
C8_InRunYear(y, slug, c) ==
    /\ y \in DOMAIN run_years
    /\ slug \in DOMAIN run_years[y]
    /\ run_years[y][slug] = c

C8_Indexed(slug, c) ==
    IF c.start_date # NoDate
    THEN /\ c.end_date # NoDate
         /\ \A y \in 1..MaxYear :
               C8_InRunYear(y, slug, c)
                   <=> (c.start_date.year <= y /\ y <= c.end_date.year)
         /\ slug \notin DOMAIN self_study_courses
    ELSE /\ slug \in DOMAIN self_study_courses
         /\ self_study_courses[slug] = c
         /\ \A y \in DOMAIN run_years : slug \notin DOMAIN run_years[y]

C8_NoStaleEntry ==
    /\ \A y \in DOMAIN run_years : \A slug \in DOMAIN run_years[y] :
          slug \in DOMAIN courses /\ run_years[y][slug] = courses[slug]
    /\ \A slug \in DOMAIN self_study_courses :
          slug \in DOMAIN courses /\ self_study_courses[slug] = courses[slug]

C8_IndexConsistent ==
    /\ \A slug \in DOMAIN courses : C8_Indexed(slug, courses[slug])
    /\ C8_NoStaleEntry

\* What holds of the indices whatever the courses' dates: no entry is stale,
\* and every course with a start date and an end date, or with no start
\* date, is indexed as C8 says.
C8_ConsistentButHalfDated ==
    /\ \A slug \in DOMAIN courses :
          (courses[slug].start_date # NoDate /\ courses[slug].end_date = NoDate)
              \/ C8_Indexed(slug, courses[slug])
    /\ C8_NoStaleEntry

\* C9: the start_date and the end_date of a loaded Course are both present
\* or both absent; a derived start_date is the minimum and a derived
\* end_date the maximum of the sessions' dates, so that start_date <=
\* end_date when both are derived, and both are absent when they are
\* derived and no session has a date.
C9_BothOrNeither ==
    (course.start_date = NoDate) <=> (course.end_date = NoDate)

C9_Derived ==
    /\ course # NoCourse
    /\ doc.start_date = NoDate =>
           /\ course.start_date = MinDate(SessionDates(doc.sessions))
           /\ SessionDates(doc.sessions) = {} => course.start_date = NoDate
           /\ SessionDates(doc.sessions) # {} =>
                  /\ course.start_date \in SessionDates(doc.sessions)
                  /\ \A i \in DOMAIN doc.sessions :
                        doc.sessions[i] # NoDate
                            => DateLE(course.start_date, doc.sessions[i])
    /\ doc.end_date = NoDate =>
           /\ course.end_date = MaxDate(SessionDates(doc.sessions))
           /\ SessionDates(doc.sessions) = {} => course.end_date = NoDate
           /\ SessionDates(doc.sessions) # {} =>
                  /\ course.end_date \in SessionDates(doc.sessions)
                  /\ \A i \in DOMAIN doc.sessions :
                        doc.sessions[i] # NoDate
                            => DateLE(doc.sessions[i], course.end_date)
    /\ (doc.start_date = NoDate /\ doc.end_date = NoDate
            /\ course.start_date # NoDate)
           => DateLE(course.start_date, course.end_date)

C9_StartEndDates == course # NoCourse => (C9_BothOrNeither /\ C9_Derived)

\* What holds of the dates of every loaded Course: the derived ones are the
\* minimum and the maximum of the sessions' dates.
C9_DerivedDates == course # NoCourse => C9_Derived

\* C10 as stated: node._url is None when get_url(external=True) fails with
\* NoURL, and fails with NoURLType when get_url fails with NoURLType.
C10_UrlPropagatesNoURLType ==
    urlLast.op = "_url" =>
        /\ urlLast.got.exc = "NoURL" =>
               (urlLast.exc = "" /\ urlLast.val = <<"None">>)
        /\ urlLast.got.exc = "NoURLType" => urlLast.exc = "NoURLType"

\* C10, amended: node._url is None when get_url(external=True) fails with
\* NoURL or with its subclass NoURLType (the kind "web" has no resolvers in
\* Root.url_factories), so that _url never fails with either; otherwise it
\* is what get_url returns.
C10_UrlSwallowsNoURL ==
    urlLast.op = "_url" =>
        /\ urlLast.got.exc \in {"NoURL", "NoURLType"} =>
               (urlLast.exc = "" /\ urlLast.val = <<"None">>)
        /\ urlLast.got.exc = "" =>
               (urlLast.exc = "" /\ urlLast.val = urlLast.got.val)
        /\ urlLast.exc \notin {"NoURL", "NoURLType"}
        /\ urlLast.got.exc = "NoURLType" => "web" \notin DOMAIN url_factories

C10_Witness ==
    /\ urlLast.op = "_url"
    /\ urlLast.node.type = "Course"
    /\ urlLast.got.exc = "NoURLType"
    /\ "web" \notin DOMAIN url_factories
    /\ urlLast.exc = ""
    /\ urlLast.val = <<"None">>

\* The nodes whose get_url is Model.get_url, and the Material nodes.
C11_ModelNodes == {n \in UrlNodes : n.type \notin {"Material", "License"}}
C12_Materials == {n \in UrlNodes : n.type = "Material"}

C11_Registered(type, url_type) ==
    url_type \in DOMAIN url_factories /\ type \in url_factories[url_type]

C12_GetUrlStep(m, t) ==
    /\ urlLast'.op = "get_url"
    /\ urlLast'.node = m
    /\ urlLast'.url_type = t
    /\ UNCHANGED <<_lessons, _frozen, link_depth, call, pre, fetched, calls, last>>

\* C12 as stated: Material.get_url forwards to the URL of the referenced
\* lesson when lesson_slug is set; otherwise it returns external_url when
\* that is set; with neither it fails with NoURL for the kind "web".
C12_MaterialUrlAnyKind ==
    [][\A m \in C12_Materials, t \in UrlKinds :
          C12_GetUrlStep(m, t) =>
              IF m.lesson_slug # NoSlug
              THEN urlLast'.got = GetLessonUrlOutcome(url_factories, _lessons,
                                                     _frozen, m.lesson_slug)
              ELSE IF m.external_url # ""
              THEN urlLast'.exc = "" /\ urlLast'.val = <<m.external_url>>
              ELSE t = "web" => urlLast'.exc = "NoURL"]_vars

\* C12, amended: with lesson_slug set, Material.get_url is
\* Course.get_lesson_url(lesson_slug) whatever kind and external flag were
\* asked for: the "web", non-external URL of the Lesson when the lesson is
\* materialized, and otherwise that of the lesson's page "index", the slug
\* being added to _requested_lessons (the course is then not frozen).
\* Without a lesson_slug it fails with NoURLType for every kind but "web";
\* for "web" it returns external_url when that is set and fails with NoURL
\* when it is not.
C12_LessonUrl(type, pks) ==
    Root_url_for(url_factories, type, pks, "web", "external=False")

C12_MaterialUrl ==
    [][\A m \in C12_Materials, t \in UrlKinds :
          C12_GetUrlStep(m, t) =>
              IF m.lesson_slug # NoSlug
              THEN IF m.lesson_slug \in _lessons
                   THEN /\ urlLast'.got =
                              C12_LessonUrl("Lesson",
                                  [course_slug |-> CourseSlug,
                                   lesson_slug |-> ToString(m.lesson_slug)])
                        /\ _requested_lessons' = _requested_lessons
                   ELSE /\ ~_frozen
                        /\ urlLast'.got =
                              C12_LessonUrl("Page",
                                  [course_slug |-> CourseSlug,
                                   lesson_slug |-> ToString(m.lesson_slug),
                                   page_slug |-> "index"])
                        /\ _requested_lessons' =
                              _requested_lessons \cup {m.lesson_slug}
              ELSE /\ _requested_lessons' = _requested_lessons
                   /\ IF t # "web" THEN urlLast'.exc = "NoURLType"
                      ELSE IF m.external_url # ""
                      THEN urlLast'.exc = "" /\ urlLast'.val = <<m.external_url>>
                      ELSE urlLast'.exc = "NoURL"]_vars

C12_Witness ==
    /\ urlLast.op = "get_url"
    /\ urlLast.node = MaterialNode(LessonMaterial(1))
    /\ urlLast.url_type = "api"
    /\ urlLast.external = "external=True"
    /\ 1 \in _lessons
    /\ urlLast.val = <<"url", "Lesson", "web", "external=False">>

\* C13: for every node N, get_pks(N) is the parent's mapping extended by
\* exactly one entry, whose value is N's own key, and Root's mapping is
\* empty; so the mapping has one entry per node on the path from Root to N.
\* Two calls on the same node give the same mapping.
C13_ParentPks == get_pks(Parent(pksLast.path))

C13_PrimaryKeys ==
    pksLast.n > 0 =>
        /\ pksLast.path = <<>> => pksLast.pks = NoPks
        /\ pksLast.path # <<>> =>
               /\ DOMAIN C13_ParentPks \subseteq DOMAIN pksLast.pks
               /\ \A k \in DOMAIN C13_ParentPks : pksLast.pks[k] = C13_ParentPks[k]
               /\ Cardinality(DOMAIN pksLast.pks \ DOMAIN C13_ParentPks) = 1
               /\ \A k \in DOMAIN pksLast.pks \ DOMAIN C13_ParentPks :
                     pksLast.pks[k] = KeyOf(pksLast.path)
        /\ Cardinality(DOMAIN pksLast.pks) = Len(pksLast.path)
        /\ {pksLast.pks[k] : k \in DOMAIN pksLast.pks}
               = {pksLast.path[i][2] : i \in 1..Len(pksLast.path)}
        /\ (pksLast.n = 2 /\ pksLast.prev_path = pksLast.path)
               => pksLast.prev_pks = pksLast.pks

C13_Witness ==
    /\ pksLast.n = 2
    /\ pksLast.prev_path = pksLast.path
    /\ TypeOf(pksLast.path) = "Solution"
    /\ pksLast.path[1][2] = "a"
    /\ pksLast.path[2][2] = "b"
    /\ Cardinality(DOMAIN pksLast.pks) = 4

\* The datetime of a kind before its timezone is looked at is naive.
C14_Naive(kind) ==
    LET c == Combined(timeIn.session, timeIn.default_time, kind)
    IN c # {} /\ The(c).tzinfo = NoTz

C14_Aware(kind) ==
    LET c == Combined(timeIn.session, timeIn.default_time, kind)
    IN c # {} /\ The(c).tzinfo # NoTz

C14_KeysOk ==
    timeIn.session.time.given => TimeKeys(timeIn.session.time) = {"start", "end"}

C14_MissingTimezone == "ValueError: missing timezone information"

\* C14: after a session's time is resolved successfully it is absent or a
\* pair with exactly the keys start and end, both offset-aware; a resolved
\* value that is naive is stamped with the course's timezone, and when the
\* course has none the load fails with a ValueError naming the session and
\* the missing timezone.
C14_TimeResolved ==
    timeOut.done =>
        /\ timeOut.fixed.status = "ok" =>
               \A t \in timeOut.fixed.time :
                   /\ DOMAIN t = {"start", "end"}
                   /\ \A k \in {"start", "end"} :
                         /\ t[k].type = "datetime"
                         /\ t[k].tzinfo # NoTz
                         /\ C14_Naive(k) =>
                               /\ timeOut.timezone # NoTz
                               /\ t[k] = [The(Combined(timeIn.session,
                                                       timeIn.default_time, k))
                                              EXCEPT !.tzinfo = timeOut.timezone]
                         /\ C14_Aware(k) =>
                               t[k] = The(Combined(timeIn.session,
                                                   timeIn.default_time, k))
        /\ (/\ C14_KeysOk
            /\ timeOut.timezone = NoTz
            /\ \/ C14_Naive("start")
               \/ C14_Aware("start") /\ C14_Naive("end")) =>
               /\ timeOut.fixed.status = C14_MissingTimezone
               /\ timeOut.fixed.err_slug = timeIn.session.slug
               /\ timeOut.fixed.err_kind =
                      IF C14_Naive("start") THEN "start" ELSE "end"
        /\ timeOut.fixed.status = C14_MissingTimezone => timeOut.timezone = NoTz
        /\ timeOut.fixed.status \in
               {"ok", C14_MissingTimezone, "ValueError: must have start and end"}

C14_Witness ==
    /\ timeOut.done
    /\ timeOut.fixed.status = "ok"
    /\ timeIn.session.time.start = {TimeOfDay("10:00", NoTz)}
    /\ timeIn.session.time.end = {TimeOfDay("10:00", "+0100")}
    /\ timeOut.timezone = "tzfile(UTC)"
    /\ timeOut.fixed.time # {}
    /\ The(timeOut.fixed.time).start.tzinfo = "tzfile(UTC)"
    /\ The(timeOut.fixed.time).end.tzinfo = "+0100"

\* C15 as stated: a session without a date has its time resolved to absent,
\* without an error, whatever start, end, default_time and timezone are.
C15_NoDateAbsentAlways ==
    (timeOut.done /\ timeIn.session.date = NoDate) =>
        (timeOut.fixed.status = "ok" /\ timeOut.fixed.time = {})

C15_IsDateTime(kind) ==
    /\ timeIn.session.time[kind] # {}
    /\ The(timeIn.session.time[kind]).type = "datetime"

\* C15, amended: for a session without a date the time resolves to absent,
\* without an error, when no time is given, when start is given as a time of
\* day, and when end is, whatever default_time and the timezone are. Full
\* datetimes need no date: when start and end both are, the time is the
\* pair of them.
C15_NoDate ==
    (timeOut.done /\ timeIn.session.date = NoDate /\ C14_KeysOk) =>
        /\ (~timeIn.session.time.given \/ ~C15_IsDateTime("start")
                \/ ~C15_IsDateTime("end")) =>
               (timeOut.fixed.status = "ok" /\ timeOut.fixed.time = {})
        /\ (C15_IsDateTime("start") /\ C15_IsDateTime("end")) =>
               /\ timeOut.fixed.status = "ok"
               /\ timeOut.fixed.time =
                      {[k \in {"start", "end"} |-> The(timeIn.session.time[k])]}

C15_Witness ==
    /\ timeOut.done
    /\ timeIn.session.date = NoDate
    /\ timeIn.default_time # {}
    /\ timeIn.session.time.start = {TimeOfDay("10:00", NoTz)}
    /\ timeIn.session.time.end = {DateTime(TimeDate, "09:00", "+0100")}
    /\ timeOut.timezone = NoTz
    /\ timeOut.fixed.status = "ok"
    /\ timeOut.fixed.time = {}

C17_Set(opt) == opt \notin {{}, {""}}

\* C17: the load of a Material with both a lesson_slug and an external_url
\* fails validation, and no loaded Material has both set.
C17_ExclusiveFields ==
    matOut.done =>
        /\ (C17_Set(matIn.lesson_slug) /\ C17_Set(matIn.external_url)) =>
               /\ matOut.status =
                      "ValueError: external_url and lesson_slug are incompatible"
               /\ matOut.node = {}
        /\ \A m \in matOut.node :
               ~(C17_Set(m.lesson_slug) /\ C17_Set(m.external_url))
        /\ ~(C17_Set(matIn.lesson_slug) /\ C17_Set(matIn.external_url)) =>
               (matOut.status = "ok" /\ matOut.node = {matIn})

C17_Witness ==
    /\ matOut.done
    /\ matIn.lesson_slug = {"1"}
    /\ matIn.external_url = {"https://x"}
    /\ matOut.status # "ok"
    /\ matOut.node = {}

\* The indices of the materials of a list that reference a lesson.
C18_Lessons(list) ==
    {i \in 1..Len(list) : list[i].lesson_slug \notin {{}, {""}}}

\* The elements of the set S of indices form a chain in increasing order
\* under the prev and next of list.
C18_Chain(list, S) ==
    /\ \A i \in S :
          /\ list[i].prev \subseteq S
          /\ list[i].next \subseteq S
          /\ list[i].prev = {} <=> (\A j \in S : j >= i)
          /\ list[i].next = {} <=> (\A j \in S : j <= i)
    /\ \A a, b \in S :
          /\ list[a].next = {b} <=> list[b].prev = {a}
          /\ list[a].next = {b} <=>
                (a < b /\ \A j \in S : ~(a < j /\ j < b))

\* C18: prev and next form a consistent chain over a course's sessions in
\* order and, within each session, over exactly the materials that
\* reference a lesson: the first element has no prev, the last no next,
\* a.next is b exactly when b.prev is a, which is so exactly for consecutive
\* elements; materials without a lesson_slug are not part of the chain.
C18_PrevNextChain ==
    chainOut.done =>
        /\ Len(chainOut.sessions) = Len(chainIn)
        /\ C18_Chain(chainOut.sessions, 1..Len(chainOut.sessions))
        /\ \A n \in 1..Len(chainOut.sessions) :
              LET list == chainOut.sessions[n].materials
              IN /\ Len(list) = Len(chainIn[n])
                 /\ \A i \in 1..Len(list) :
                       /\ list[i].lesson_slug = chainIn[n][i].lesson_slug
                       /\ list[i].linked <=> i \in C18_Lessons(list)
                 /\ C18_Chain(list, C18_Lessons(list))

C18_Witness ==
    /\ chainOut.done
    /\ Len(chainOut.sessions) = 2
    /\ chainOut.sessions[1].next = {2}
    /\ chainOut.sessions[2].prev = {1}
    /\ LET list == chainOut.sessions[2].materials
       IN /\ Len(list) = 3
          /\ list[1].lesson_slug = {"1"}
          /\ list[2].lesson_slug = {}
          /\ list[3].lesson_slug = {"1"}
          /\ list[1].next = {3}
          /\ list[3].prev = {1}
          /\ ~list[2].linked

\* C19: whenever load_all_lessons returns normally, nothing is requested;
\* and in every state a frozen course has nothing requested: freeze leaves
\* no requested, unloaded lesson behind, and no operation adds a request to
\* a frozen course.
C19_FrozenNothingRequested ==
    /\ _frozen => _requested_lessons = {}
    /\ (call = "none" /\ last.op = "load_all_lessons" /\ last.result = "ok") =>
           _requested_lessons = {}

C19_Witness ==
    /\ _frozen
    /\ last.op = "get_lesson_url"
    /\ last.arg \cap _lessons = {}
    /\ _lessons # {}
    /\ _requested_lessons = {}

\* C20: on a frozen course every lesson a material refers to, and every slug
\* requested earlier, is materialized (a requested slug stays requested
\* until it is materialized, and nothing is requested once frozen); and
\* Material.lesson of any material with a lesson_slug returns the lesson
\* without a call to the renderer.
C20_FrozenMaterialLessons ==
    /\ [](_frozen =>
            /\ \A m \in materials : RefersToLesson(m) => m.lesson_slug \in _lessons
            /\ _requested_lessons = {}
            /\ (/\ last.op = "lessons[]"
                /\ \E m \in materials :
                      m.lesson_slug # NoSlug /\ last.arg = {m.lesson_slug}) =>
                  (last.result = "ok" /\ calls = 0 /\ fetched = {}))
    /\ [][(_lessons \cup _requested_lessons) \subseteq
              (_lessons' \cup _requested_lessons')]_vars

====
